---- MODULE Spec2Model ----
(***************************************************************************)
(* Model of the worker pool of rusty-spinner (src/src/lib.rs):             *)
(* ThreadPool::build, Worker::new with the worker run loop,                *)
(* ThreadPool::execute, and the drop of the pool (ThreadPool has no Drop   *)
(* impl, so dropping it drops its fields: the JoinHandles, which detaches  *)
(* the threads, and the Sender, which disconnects the channel).            *)
(* The server of src/src/main.rs (main and handle_connection) is modelled  *)
(* by the actions of ServerNext; main.rs never builds a pool.              *)
(***************************************************************************)
EXTENDS Integers, Sequences, FiniteSets, TLC

\* ---- bounds of the model ----
MaxSize == 2        \* build is called with a size in 0..MaxSize
NumCallers == 2     \* threads that call execute on the shared pool
MaxJobs == 3        \* execute calls made in all
MaxConns == 3       \* client connections made to the server

Callers == 1..NumCallers
WorkerSlots == 0..(MaxSize - 1)
None == -1          \* "no worker" (mutex free)
BuildHandle == -2   \* holder id of the `receiver` local of build
JobKinds == {"ok", "panic"}      \* a job's closure returns, or panics
OsErrors == {"EAGAIN", "ENOMEM"}           \* std::io::Error values of a failed spawn
Jobs == [caller : Callers, seq : 1..MaxJobs, kind : JobKinds]
NoJob == [caller |-> 0, seq |-> 0, kind |-> "none"]
Conns == 1..MaxConns
NoStream == 0       \* main is not handling a connection
NoLine == "<closed>"    \* the client closed without sending a line
RequestLines == {"GET / HTTP/1.1", "GET /sleep HTTP/1.1", "GET /notfound HTTP/1.1"}

VARIABLES
    buildPc,      \* position of build: "start", "spawning", "done"
    size,         \* the argument of build
    result,       \* what build returned: "none", "Ok", "InvalidSize", "ThreadSpawnError"
    osError,      \* the io::Error the failed builder.spawn returned ("none" otherwise)
    cause,        \* the io::Error wrapped by ThreadSpawnError ("none" otherwise)
    channels,     \* number of mpsc::channel() calls made
    spawnAttempts,\* number of builder.spawn calls made
    spawnErrors,  \* number of builder.spawn calls that failed
    poolState,    \* the ThreadPool value: "none", "alive", "dropped"
    senderAlive,  \* the single mpsc::Sender exists
    rxHolders,    \* holders of an Arc<Mutex<Receiver>>: BuildHandle and worker ids
    queue,        \* messages buffered in the channel
    lockHolder,   \* worker holding the MutexGuard, or None
    poisoned,     \* the Mutex is poisoned
    wpc,          \* worker thread position: "unspawned", "lock", "recv", "run", "dead"
    wjob,         \* the job a worker is running
    next,         \* per caller: number of execute calls made
    sendErrors,   \* number of execute calls whose send failed (caller panicked)
    deqLog,       \* history: <<job, worker>> in the order recv returned them
    started,      \* history: per job identity, number of job() calls
    backlog,      \* connections made to the listener, not yet yielded by incoming()
    request,      \* per connection: the first line the client sent, NoLine, or "unsent"
    mainPc,       \* position of main: "accept", "read", "sleep", "respond", "panicked"
    stream,       \* the connection handle_connection is working on
    statusLine,   \* status_line chosen by the match of handle_connection
    responses     \* per connection: the status lines written to it

vars == <<buildPc, size, result, osError, cause, channels, spawnAttempts, spawnErrors,
          poolState, senderAlive, rxHolders, queue, lockHolder, poisoned,
          wpc, wjob, next, sendErrors, deqLog, started,
          backlog, request, mainPc, stream, statusLine, responses>>

serverVars == <<backlog, request, mainPc, stream, statusLine, responses>>
poolVars == <<buildPc, size, result, osError, cause, channels, spawnAttempts, spawnErrors,
              poolState, senderAlive, rxHolders, queue, lockHolder, poisoned,
              wpc, wjob, next, sendErrors, deqLog, started>>
buildVars == <<buildPc, size, result, osError, cause, channels, spawnAttempts, spawnErrors>>

JobId(j) == <<j.caller, j.seq>>
JobIds == Callers \X (1..MaxJobs)

Init ==
    /\ buildPc = "start"
    /\ size = 0
    /\ result = "none"
    /\ osError = "none"
    /\ cause = "none"
    /\ channels = 0
    /\ spawnAttempts = 0
    /\ spawnErrors = 0
    /\ poolState = "none"
    /\ senderAlive = FALSE
    /\ rxHolders = {}
    /\ queue = << >>
    /\ lockHolder = None
    /\ poisoned = FALSE
    /\ wpc = [w \in WorkerSlots |-> "unspawned"]
    /\ wjob = [w \in WorkerSlots |-> NoJob]
    /\ next = [c \in Callers |-> 0]
    /\ sendErrors = 0
    /\ deqLog = << >>
    /\ started = [i \in JobIds |-> 0]
    /\ backlog = << >>
    /\ request = [c \in Conns |-> "unsent"]
    /\ mainPc = "accept"
    /\ stream = NoStream
    /\ statusLine = "none"
    /\ responses = [c \in Conns |-> << >>]

\* ---- ThreadPool::build ----

\* lib.rs:10, lib.rs:80 the ThreadSpawnError variant holds the io::Error it is given
ThreadSpawnError(err) == err

\* A size check that lets zero through.
InvalidSize_Never(n) == n < 0

\* lib.rs:70  if size == 0
InvalidSize(n) == n = 0

\* A range that starts at 1: one worker too few.
WorkerIds_FromOne(n) == 1..(n - 1)

\* lib.rs:77  (0..size): the ids handed to Worker::new
WorkerIds(n) == 0..(n - 1)

\* lib.rs:69-75: the size check, then mpsc::channel() and Arc::new(Mutex::new(receiver))
Build(n) ==
    /\ buildPc = "start"
    /\ size' = n
    /\ IF InvalidSize(n)
       THEN /\ buildPc' = "done"
            /\ result' = "InvalidSize"
            /\ UNCHANGED <<channels, senderAlive, rxHolders>>
       ELSE /\ buildPc' = "spawning"
            /\ result' = "none"
            /\ channels' = channels + 1
            /\ senderAlive' = TRUE
            /\ rxHolders' = {BuildHandle}
    /\ UNCHANGED <<serverVars, osError, cause, spawnAttempts, spawnErrors, poolState, queue, lockHolder,
                   poisoned, wpc, wjob, next, sendErrors, deqLog, started>>

\* The next id the map/collect of lib.rs:77-79 will pass to Worker::new:
\* the least id of WorkerIds(size) not spawned yet.
Unspawned == {i \in WorkerIds(size) : wpc[i] = "unspawned"}
NextId == CHOOSE i \in Unspawned : \A k \in Unspawned : i <= k

\* lib.rs:38-57 Worker::new, builder.spawn succeeds: the thread starts at the
\* top of its loop, owning a clone of the Arc.
SpawnOk ==
    /\ buildPc = "spawning"
    /\ Unspawned # {}
    /\ spawnAttempts' = spawnAttempts + 1
    /\ wpc' = [wpc EXCEPT ![NextId] = "lock"]
    /\ rxHolders' = rxHolders \cup {NextId}
    /\ UNCHANGED <<serverVars, buildPc, size, result, osError, cause, channels, spawnErrors, poolState,
                   senderAlive, queue, lockHolder, poisoned, wjob, next,
                   sendErrors, deqLog, started>>

\* A build that skips a worker whose spawn failed and goes on with the next
\* id, as a filter_map(Result::ok) in place of the fail-fast collect would.
SpawnFail_Skip(e) ==
    /\ buildPc = "spawning"
    /\ Unspawned # {}
    /\ spawnAttempts' = spawnAttempts + 1
    /\ spawnErrors' = spawnErrors + 1
    /\ osError' = e
    /\ wpc' = [wpc EXCEPT ![NextId] = "dead"]
    /\ UNCHANGED <<serverVars, buildPc, size, result, cause, channels, poolState, senderAlive,
                   rxHolders, queue, lockHolder, poisoned, wjob, next, sendErrors,
                   deqLog, started>>

\* A failing build that keeps the Sender alive (leaked, or cloned elsewhere).
SpawnFail_LeaksSender(e) ==
    /\ buildPc = "spawning"
    /\ Unspawned # {}
    /\ spawnAttempts' = spawnAttempts + 1
    /\ spawnErrors' = spawnErrors + 1
    /\ buildPc' = "done"
    /\ result' = "ThreadSpawnError"
    /\ osError' = e
    /\ cause' = ThreadSpawnError(e)
    /\ rxHolders' = rxHolders \ {BuildHandle}
    /\ UNCHANGED <<serverVars, size, channels, poolState, senderAlive, queue, lockHolder,
                   poisoned, wpc, wjob, next, sendErrors, deqLog, started>>

\* lib.rs:53 `?` in Worker::new, lib.rs:79-80: collect stops at the first Err,
\* map_err wraps it, `?` returns from build. The workers collected so far are
\* dropped (their JoinHandles detach the threads), and so are build's own
\* `receiver` Arc and the `sender`.
SpawnFail(e) ==
    /\ buildPc = "spawning"
    /\ Unspawned # {}
    /\ spawnAttempts' = spawnAttempts + 1
    /\ spawnErrors' = spawnErrors + 1
    /\ buildPc' = "done"
    /\ result' = "ThreadSpawnError"
    /\ osError' = e
    /\ cause' = ThreadSpawnError(e)
    /\ senderAlive' = FALSE
    /\ rxHolders' = rxHolders \ {BuildHandle}
    /\ UNCHANGED <<serverVars, size, channels, poolState, queue, lockHolder, poisoned, wpc,
                   wjob, next, sendErrors, deqLog, started>>

\* lib.rs:82 Ok(ThreadPool { workers, sender }); build's `receiver` Arc is
\* dropped as build returns.
BuildOk ==
    /\ buildPc = "spawning"
    /\ Unspawned = {}
    /\ buildPc' = "done"
    /\ result' = "Ok"
    /\ poolState' = "alive"
    /\ rxHolders' = rxHolders \ {BuildHandle}
    /\ UNCHANGED <<serverVars, size, osError, cause, channels, spawnAttempts, spawnErrors, senderAlive,
                   queue, lockHolder, poisoned, wpc, wjob, next, sendErrors,
                   deqLog, started>>

\* ---- the channel ----

\* The Receiver is dropped with the last Arc; the channel is then disconnected
\* on the consumer side and its buffered messages are dropped.
ReceiverClosed(holders) == holders = {}

\* A recv that hands out the newest message.
RecvJob_Newest(q) == q[Len(q)]

\* mpsc::Receiver::recv: the message returned (the oldest one buffered).
RecvJob(q) == Head(q)

\* A recv that leaves the message in the buffer.
RecvRest_Keep(q) == q

\* mpsc::Receiver::recv: the buffer it leaves.
RecvRest(q) == Tail(q)

\* mpsc::Sender::send on a connected channel (unbounded buffer).
SendJob(q, j) == Append(q, j)

\* ---- ThreadPool::execute ----

\* Number of execute calls made so far, by all callers.
RECURSIVE SumNext(_)
SumNext(C) == IF C = {} THEN 0
              ELSE LET c == CHOOSE x \in C : TRUE IN next[c] + SumNext(C \ {c})
NumSubmitted == SumNext(Callers)

\* lib.rs:86-97: Box::new(f), sender.send(job).unwrap(). send fails only when
\* the Receiver is gone; unwrap then panics in the caller.
Execute(c, k) ==
    /\ poolState = "alive"
    /\ NumSubmitted < MaxJobs
    /\ next' = [next EXCEPT ![c] = next[c] + 1]
    /\ LET job == [caller |-> c, seq |-> next[c] + 1, kind |-> k] IN
       IF ReceiverClosed(rxHolders)
       THEN /\ sendErrors' = sendErrors + 1
            /\ UNCHANGED queue
       ELSE /\ queue' = SendJob(queue, job)
            /\ UNCHANGED sendErrors
    /\ UNCHANGED <<serverVars, buildVars, poolState, senderAlive, rxHolders, lockHolder,
                   poisoned, wpc, wjob, deqLog, started>>

\* ---- drop of the ThreadPool (lib.rs:60-63, no Drop impl) ----

\* A drop that leaves the Sender alive (a clone of it kept elsewhere).
DropPool_KeepsSender ==
    /\ poolState = "alive"
    /\ poolState' = "dropped"
    /\ UNCHANGED <<serverVars, buildVars, senderAlive, rxHolders, queue, lockHolder, poisoned,
                   wpc, wjob, next, sendErrors, deqLog, started>>

\* The fields are dropped: Vec<Worker> (each JoinHandle detaches its thread;
\* nothing is joined) and the Sender (the channel is disconnected for recv).
DropPool ==
    /\ poolState = "alive"
    /\ poolState' = "dropped"
    /\ senderAlive' = FALSE
    /\ UNCHANGED <<serverVars, buildVars, rxHolders, queue, lockHolder, poisoned, wpc, wjob,
                   next, sendErrors, deqLog, started>>

\* ---- the worker thread (lib.rs:43-53) ----

\* A worker thread ends (by panic: the loop has no other exit): its closure,
\* and with it its Arc clone, is dropped.
Exit(w) ==
    /\ wpc' = [wpc EXCEPT ![w] = "dead"]
    /\ wjob' = [wjob EXCEPT ![w] = NoJob]
    /\ rxHolders' = rxHolders \ {w}

\* A lock() that does not wait for the holder: no mutual exclusion.
WLock_NoExclusion(w) ==
    /\ wpc[w] = "lock"
    /\ ~poisoned
    /\ lockHolder' = w
    /\ wpc' = [wpc EXCEPT ![w] = "recv"]
    /\ UNCHANGED <<serverVars, buildVars, poolState, senderAlive, rxHolders, queue, poisoned,
                   wjob, next, sendErrors, deqLog, started>>

\* lib.rs:45 receiver.lock() on a sound mutex: blocks until the mutex is free.
WLock(w) ==
    /\ wpc[w] = "lock"
    /\ lockHolder = None
    /\ ~poisoned
    /\ lockHolder' = w
    /\ wpc' = [wpc EXCEPT ![w] = "recv"]
    /\ UNCHANGED <<serverVars, buildVars, poolState, senderAlive, rxHolders, queue, poisoned,
                   wjob, next, sendErrors, deqLog, started>>

\* lib.rs:45-46 lock() returns Err(PoisonError), expect panics: the thread ends.
WLockPoisoned(w) ==
    /\ wpc[w] = "lock"
    /\ lockHolder = None
    /\ poisoned
    /\ Exit(w)
    /\ queue' = IF ReceiverClosed(rxHolders') THEN << >> ELSE queue
    /\ UNCHANGED <<serverVars, buildVars, poolState, senderAlive, lockHolder, poisoned, next,
                   sendErrors, deqLog, started>>

\* A guard bound to a variable that lives across job().
GuardAfterRecv_Held(w) == w

\* The mutex after the statement of lib.rs:44-48: the MutexGuard is a
\* temporary of the `let job = ...;` statement, dropped at its end.
GuardAfterRecv(w) == None

\* lib.rs:47-52 recv() returns a job (buffered messages are delivered even
\* after the Sender is gone); the guard is released; job() is called.
WRecv(w) ==
    /\ wpc[w] = "recv"
    /\ lockHolder = w
    /\ queue # << >>
    /\ LET job == RecvJob(queue) IN
        /\ queue' = RecvRest(queue)
        /\ wjob' = [wjob EXCEPT ![w] = job]
        /\ deqLog' = Append(deqLog, <<job, w>>)
        /\ started' = [started EXCEPT ![JobId(job)] = @ + 1]
    /\ lockHolder' = GuardAfterRecv(w)
    /\ wpc' = [wpc EXCEPT ![w] = "run"]
    /\ UNCHANGED <<serverVars, buildVars, poolState, senderAlive, rxHolders, poisoned, next,
                   sendErrors>>

\* lib.rs:47-48 recv() returns Err(RecvError): buffer empty and Sender gone.
\* unwrap panics while the guard is alive: the mutex is poisoned and released.
WRecvClosed(w) ==
    /\ wpc[w] = "recv"
    /\ lockHolder = w
    /\ queue = << >>
    /\ ~senderAlive
    /\ poisoned' = TRUE
    /\ lockHolder' = None
    /\ Exit(w)
    /\ UNCHANGED <<serverVars, buildVars, poolState, senderAlive, queue, next, sendErrors,
                   deqLog, started>>

\* lib.rs:52 job() returns: back to the top of the loop.
JobReturn(w) ==
    /\ wpc[w] = "run"
    /\ wjob[w].kind = "ok"
    /\ wpc' = [wpc EXCEPT ![w] = "lock"]
    /\ wjob' = [wjob EXCEPT ![w] = NoJob]
    /\ UNCHANGED <<serverVars, buildVars, poolState, senderAlive, rxHolders, queue, lockHolder,
                   poisoned, next, sendErrors, deqLog, started>>

\* A job() called while the guard is alive: its panic poisons the mutex.
JobPanic_Poisons(w) ==
    /\ wpc[w] = "run"
    /\ wjob[w].kind = "panic"
    /\ Exit(w)
    /\ poisoned' = TRUE
    /\ queue' = IF ReceiverClosed(rxHolders') THEN << >> ELSE queue
    /\ UNCHANGED <<serverVars, buildVars, poolState, senderAlive, lockHolder, next,
                   sendErrors, deqLog, started>>

\* lib.rs:52 job() panics: nothing catches it, the worker thread ends. The
\* guard was released before the call, so the mutex is not poisoned.
JobPanic(w) ==
    /\ wpc[w] = "run"
    /\ wjob[w].kind = "panic"
    /\ Exit(w)
    /\ queue' = IF ReceiverClosed(rxHolders') THEN << >> ELSE queue
    /\ UNCHANGED <<serverVars, buildVars, poolState, senderAlive, lockHolder, poisoned, next,
                   sendErrors, deqLog, started>>

WorkerStep(w) == WLock(w) \/ WLockPoisoned(w) \/ WRecv(w) \/ WRecvClosed(w)
JobStep(w) == JobReturn(w) \/ JobPanic(w)

Next ==
    \/ \E n \in 0..MaxSize : Build(n)
    \/ SpawnOk
    \/ \E e \in OsErrors : SpawnFail(e)
    \/ BuildOk
    \/ \E c \in Callers, k \in JobKinds : Execute(c, k)
    \/ DropPool
    \/ \E w \in WorkerSlots : WLock(w)
    \/ \E w \in WorkerSlots : WLockPoisoned(w)
    \/ \E w \in WorkerSlots : WRecv(w)
    \/ \E w \in WorkerSlots : WRecvClosed(w)
    \/ \E w \in WorkerSlots : JobReturn(w)
    \/ \E w \in WorkerSlots : JobPanic(w)

Spec == Init /\ [][Next]_vars

\* ---- the server (main.rs) ----

\* main.rs:47-57 the match on the request line: the status line it yields.
StatusLineOf(line) ==
    CASE line = "GET / HTTP/1.1" -> "HTTP/1.1 200 OK"
      [] line = "GET /sleep HTTP/1.1" -> "HTTP/1.1 200 OK"
      [] OTHER -> "HTTP/1.1 404 NOT FOUND"

\* A client connects to 127.0.0.1:7878 and sends its first line, or closes
\* without sending one (as `nc -vz` does, main.rs:24).
Connect(c, r) ==
    /\ request[c] = "unsent"
    /\ request' = [request EXCEPT ![c] = r]
    /\ backlog' = Append(backlog, c)
    /\ UNCHANGED <<poolVars, mainPc, stream, statusLine, responses>>

\* main.rs:22-34 listener.incoming() yields the next connection and main
\* calls handle_connection(stream) itself.
Accept ==
    /\ mainPc = "accept"
    /\ backlog # << >>
    /\ stream' = Head(backlog)
    /\ backlog' = Tail(backlog)
    /\ mainPc' = "read"
    /\ UNCHANGED <<poolVars, request, statusLine, responses>>

\* main.rs:39-57 the first line is read and matched. lines().next() is None
\* when the client sent nothing: unwrap panics in the main thread.
ReadRequest ==
    /\ mainPc = "read"
    /\ IF request[stream] = NoLine
       THEN /\ mainPc' = "panicked"
            /\ UNCHANGED statusLine
       ELSE IF request[stream] = "GET /sleep HTTP/1.1"
       THEN /\ mainPc' = "sleep"
            /\ UNCHANGED statusLine
       ELSE /\ mainPc' = "respond"
            /\ statusLine' = StatusLineOf(request[stream])
    /\ UNCHANGED <<poolVars, backlog, request, stream, responses>>

\* main.rs:53-54 thread::sleep returns in the main thread.
Sleep ==
    /\ mainPc = "sleep"
    /\ mainPc' = "respond"
    /\ statusLine' = StatusLineOf(request[stream])
    /\ UNCHANGED <<poolVars, backlog, request, stream, responses>>

\* main.rs:59-70 the response is written; handle_connection returns and main
\* goes back to incoming().
Respond ==
    /\ mainPc = "respond"
    /\ responses' = [responses EXCEPT ![stream] = Append(@, statusLine)]
    /\ mainPc' = "accept"
    /\ stream' = NoStream
    /\ statusLine' = "none"
    /\ UNCHANGED <<poolVars, backlog, request>>

MainStep == Accept \/ ReadRequest \/ Sleep \/ Respond

ServerNext ==
    \/ \E c \in Conns, r \in RequestLines \cup {NoLine} : Connect(c, r)
    \/ Accept
    \/ ReadRequest
    \/ Sleep
    \/ Respond

\* The process running main(): no pool is ever built.
ServerSpec == Init /\ [][ServerNext]_vars

\* The main thread runs whenever it can (the sleep ends, reads and writes
\* complete); nothing is assumed about the clients.
ServerFairSpec == ServerSpec /\ WF_vars(MainStep)

\* The scheduler runs every runnable worker thread: the steps of the loop
\* outside job() are taken when they stay possible. Nothing is assumed about
\* a job returning, nor about the callers and the owner of the pool.
FairSpec == Spec /\ \A w \in WorkerSlots : WF_vars(WorkerStep(w))

\* In addition every job ends (returns or panics).
LiveSpec == FairSpec /\ \A w \in WorkerSlots : WF_vars(JobStep(w))

TypeOK ==
    /\ buildPc \in {"start", "spawning", "done"}
    /\ size \in 0..MaxSize
    /\ result \in {"none", "Ok", "InvalidSize", "ThreadSpawnError"}
    /\ poolState \in {"none", "alive", "dropped"}
    /\ lockHolder \in WorkerSlots \cup {None}
    /\ wpc \in [WorkerSlots -> {"unspawned", "lock", "recv", "run", "dead"}]
    /\ \A i \in 1..Len(queue) : queue[i] \in Jobs

\* ---- derived notions ----

\* Worker states of the run loop: Waiting is blocked in lock() or recv().
Waiting(w) == wpc[w] \in {"lock", "recv"}
Executing(w) == wpc[w] = "run"
Terminated(w) == wpc[w] = "dead"
Spawned == {w \in WorkerSlots : wpc[w] # "unspawned" /\ w \in 0..(size - 1)}
LiveWorkers == {w \in WorkerSlots : Waiting(w) \/ Executing(w)}

\* Positions of the dequeue history at which job identity i was handed out.
Deliveries(i) == {p \in 1..Len(deqLog) : JobId(deqLog[p][1]) = i}
\* Workers that were handed job identity i.
Takers(i) == {deqLog[p][2] : p \in Deliveries(i)}
\* Positions of the buffer holding job identity i.
Pending(i) == {p \in 1..Len(queue) : JobId(queue[p]) = i}
\* Workers running job identity i right now.
Running(i) == {w \in WorkerSlots : Executing(w) /\ JobId(wjob[w]) = i}
\* execute was called for job identity i.
Submitted(i) == next[i[1]] >= i[2]
\* Total number of job() calls: the counter of jobs that record their execution.
RECURSIVE SumStarted(_)
SumStarted(S) == IF S = {} THEN 0
                 ELSE LET i == CHOOSE x \in S : TRUE IN started[i] + SumStarted(S \ {i})
Counter == SumStarted(JobIds)

\* ---- C1 ----
\* C1: whatever the interleaving of concurrent execute calls, a job is handed
\* to at most one worker and job() is called at most once for it: a job is
\* either still buffered and untaken, or out of the buffer and taken by one
\* worker; two workers never run the same job.
C1_DeliveredToOneWorker ==
    \A i \in JobIds :
        /\ Cardinality(Deliveries(i)) <= 1
        /\ Cardinality(Takers(i)) <= 1
        /\ started[i] <= 1
        /\ started[i] = Cardinality(Deliveries(i))
        /\ Cardinality(Pending(i)) <= 1
        /\ Pending(i) # {} => Deliveries(i) = {}
        /\ Cardinality(Running(i)) <= 1
        /\ Running(i) \subseteq Takers(i)
        /\ ~Submitted(i) => Pending(i) = {} /\ Deliveries(i) = {}

\* Two jobs submitted by different callers have both been dequeued, by
\* different workers.
C1_Witness ==
    \E p, r \in 1..Len(deqLog) :
        /\ deqLog[p][1].caller # deqLog[r][1].caller
        /\ deqLog[p][2] # deqLog[r][2]

\* ---- C2 ----
\* C2 (as claimed): every job submitted is eventually executed unless the
\* pool is torn down, so the counter reaches the number of jobs submitted.
C2_EveryJobEventuallyExecuted ==
    \A i \in JobIds : [](Pending(i) # {} => <>(started[i] = 1 \/ poolState = "dropped"))

\* ---- C3 ----
\* C3: the jobs of one caller are dequeued in the order that caller submitted
\* them: in the dequeue history a caller's sequence numbers increase, and a
\* job still buffered was submitted after every dequeued job of its caller.
C3_FifoPerProducer ==
    /\ \A p, r \in 1..Len(deqLog) :
          (p < r /\ deqLog[p][1].caller = deqLog[r][1].caller)
              => deqLog[p][1].seq < deqLog[r][1].seq
    /\ \A p \in 1..Len(deqLog), r \in 1..Len(queue) :
          deqLog[p][1].caller = queue[r].caller => deqLog[p][1].seq < queue[r].seq

\* Two jobs of one caller have been dequeued, by two different workers.
C3_Witness ==
    \E p, r \in 1..Len(deqLog) :
        /\ p < r
        /\ deqLog[p][1].caller = deqLog[r][1].caller
        /\ deqLog[p][2] # deqLog[r][2]

\* ---- C4 ----
\* C4 (as claimed): once the drop of the pool has completed no worker thread
\* is running, neither Waiting nor Executing.
C4_DropJoinsWorkers ==
    poolState = "dropped" => \A w \in WorkerSlots : ~Waiting(w) /\ ~Executing(w)

\* ---- C5 ----
\* C5: build(0) returns InvalidSize, and no channel is created, no spawn is
\* attempted and no worker exists in any state of build(0).
C5_BuildZeroInvalidSize ==
    /\ (buildPc = "done" /\ size = 0) => result = "InvalidSize"
    /\ (buildPc # "start" /\ size = 0) =>
          /\ channels = 0
          /\ spawnAttempts = 0
          /\ ~senderAlive
          /\ rxHolders = {}
          /\ poolState = "none"
          /\ \A w \in WorkerSlots : wpc[w] = "unspawned"
    /\ result = "InvalidSize" => size = 0

C5_Witness == buildPc = "done" /\ size = 0 /\ result = "InvalidSize"

\* ---- C6 ----
\* C6: when no spawn fails, build(n), n >= 1, returns Ok, and the pool it
\* returns (before any execute) has exactly n live workers, with ids 0..n-1,
\* each holding a handle of the one channel and each Waiting.
C6_BuildYieldsNWorkers ==
    /\ (buildPc = "done" /\ size >= 1 /\ spawnErrors = 0) => result = "Ok"
    /\ (result = "Ok" /\ poolState = "alive" /\ NumSubmitted = 0) =>
          /\ size >= 1
          /\ LiveWorkers = 0..(size - 1)
          /\ Cardinality(LiveWorkers) = size
          /\ \A w \in LiveWorkers : Waiting(w)
          /\ rxHolders = 0..(size - 1)
          /\ channels = 1
          /\ spawnAttempts = size

C6_Witness ==
    result = "Ok" /\ poolState = "alive" /\ NumSubmitted = 0 /\ size = MaxSize

\* ---- C7 ----
\* C7: when a spawn fails build returns ThreadSpawnError holding that
\* io::Error, no pool exists then or later, the failing spawn was the last
\* one attempted and the only one that failed; a pool that exists has all
\* its size workers.
C7_SpawnFailureFailsBuild ==
    /\ spawnErrors >= 1 =>
          /\ buildPc = "done"
          /\ result = "ThreadSpawnError"
          /\ cause = osError
          /\ cause \in OsErrors
          /\ poolState = "none"
          /\ spawnErrors = 1
          /\ spawnAttempts = Cardinality(Spawned) + 1
          /\ Cardinality(Spawned) < size
    /\ poolState # "none" =>
          /\ spawnErrors = 0
          /\ Cardinality(Spawned) = size
    /\ result = "ThreadSpawnError" => spawnErrors = 1

\* The second spawn of a build failed.
C7_Witness ==
    result = "ThreadSpawnError" /\ spawnAttempts >= 2 /\ cause = "ENOMEM"

\* ---- C8 ----
\* C8: a worker does not hold the dequeue lock while it runs a job, and once
\* at least n jobs have been enqueued for the n workers and no job has ended,
\* the pool reaches a state with all n workers Executing (or a job ends).
NoJobEnded ==
    \A p \in 1..Len(deqLog) :
        Executing(deqLog[p][2]) /\ wjob[deqLog[p][2]] = deqLog[p][1]
EnoughJobs ==
    /\ result = "Ok"
    /\ Len(deqLog) + Len(queue) >= size
    /\ NoJobEnded
AllExecuting == result = "Ok" /\ \A w \in 0..(size - 1) : Executing(w)
C8_SlowJobsRunInParallel ==
    /\ [](\A w \in WorkerSlots : Executing(w) => lockHolder # w)
    /\ [](EnoughJobs => <>(AllExecuting \/ ~NoJobEnded))

\* All workers of a pool of at least two are Executing, each its own job.
C8_Witness ==
    /\ AllExecuting
    /\ size >= 2
    /\ NoJobEnded
    /\ \A v, w \in 0..(size - 1) : v # w => wjob[v] # wjob[w]

\* ---- C9 ----
\* C9 (as claimed): while the pool is alive the consumer side of the channel
\* is never closed, and no send of execute fails.
C9_SendNeverFails ==
    /\ poolState = "alive" => ~ReceiverClosed(rxHolders)
    /\ sendErrors = 0

\* ---- C10 ----
\* C10 (as claimed): every call of execute on a live pool completes by
\* appending its job to the queue.
C10_ExecuteAlwaysAppends ==
    [][\A c \in Callers :
          next'[c] = next[c] + 1 =>
              /\ Len(queue') = Len(queue) + 1
              /\ queue'[Len(queue')].caller = c
              /\ queue'[Len(queue')].seq = next'[c]]_vars

\* ---- C12 ----
\* C12 (as claimed): after the pool has been dropped no worker starts a job;
\* the jobs dequeued after the drop are exactly those pending at the drop,
\* since no execute follows it.
C12_PendingJobsDroppedAtTeardown ==
    [][poolState = "dropped" => (deqLog' = deqLog /\ started' = started)]_vars

\* ---- C13 ----
\* C13 (as claimed): when build has returned ThreadSpawnError none of the
\* workers spawned before the failure is still running.
C13_FailedBuildDisposesWorkers ==
    result = "ThreadSpawnError" =>
        \A w \in WorkerSlots : ~Waiting(w) /\ ~Executing(w)

\* ---- C14 ----
\* C14: a job that panics leaves the mutex as it was, neither poisoned nor
\* held: the mutex is only ever poisoned after the Sender is gone, it is only
\* held by a worker inside recv, and while a live worker remains every
\* buffered job is eventually started.
DiedOfJobPanic(w) ==
    /\ Terminated(w)
    /\ \E p \in 1..Len(deqLog) : deqLog[p][2] = w /\ deqLog[p][1].kind = "panic"
C14_JobPanicLeavesQueueUsable ==
    /\ [](poisoned => ~senderAlive)
    /\ [](\A w \in WorkerSlots : lockHolder = w => wpc[w] = "recv")
    /\ [][\A w \in WorkerSlots :
            (Executing(w) /\ Terminated(w)') =>
                (poisoned' = poisoned /\ lockHolder' = lockHolder)]_vars
    /\ \A i \in JobIds : [](Pending(i) # {} => <>(started[i] = 1 \/ LiveWorkers = {}))

\* One worker died of a panicking job; the pool is alive, the mutex is sound
\* and the other worker runs the job submitted last.
C14_Witness ==
    /\ poolState = "alive"
    /\ ~poisoned
    /\ \E w, v \in WorkerSlots :
          /\ w # v
          /\ DiedOfJobPanic(w)
          /\ Executing(v)
          /\ Len(deqLog) = MaxJobs
          /\ deqLog[Len(deqLog)][2] = v

\* ---- C15 ----
\* C15 (as claimed): while the pool built with size N is alive exactly N
\* worker threads are alive.
C15_PoolSizeFixed ==
    poolState = "alive" => Cardinality(LiveWorkers) = size

\* ---- C16 ----
\* C16: at most one worker is inside recv, it is the holder of the mutex,
\* every other Waiting worker is at lock(), and every job that left the
\* buffer was removed by a single worker.
InRecv == {w \in WorkerSlots : wpc[w] = "recv"}
C16_DequeueMutuallyExclusive ==
    /\ Cardinality(InRecv) <= 1
    /\ \A w \in WorkerSlots : wpc[w] = "recv" <=> lockHolder = w
    /\ \A w \in WorkerSlots : (Waiting(w) /\ lockHolder # w) => wpc[w] = "lock"
    /\ \A i \in JobIds : Cardinality(Takers(i)) <= 1
    /\ Len(deqLog) + Len(queue) <= NumSubmitted

\* One worker is inside recv on an empty buffer and the other waits for the
\* mutex.
C16_Witness ==
    /\ poolState = "alive"
    /\ queue = << >>
    /\ \E w, v \in WorkerSlots :
          /\ w # v
          /\ lockHolder = w
          /\ wpc[w] = "recv"
          /\ wpc[v] = "lock"

\* ---- C17 ----
\* C17 (as claimed): a worker starts Waiting and only moves Waiting ->
\* Executing, Executing -> Waiting and Waiting -> Terminated; it never
\* terminates from Executing and takes no job once Terminated.
C17_WorkerStateMachine ==
    [][\A w \in WorkerSlots :
          /\ (wpc[w] = "unspawned" /\ wpc'[w] # "unspawned") => Waiting(w)'
          /\ Waiting(w) => (Waiting(w)' \/ Executing(w)' \/ Terminated(w)')
          /\ Executing(w) => (Executing(w)' \/ Waiting(w)')
          /\ Terminated(w) =>
                /\ Terminated(w)'
                /\ \A p \in 1..Len(deqLog') : (p > Len(deqLog) => deqLog'[p][2] # w)]_vars

\* ---- C18 ----
\* C18: once the pool is dropped the Sender is gone, and every worker of the
\* pool eventually terminates, the ones waiting for the mutex included.
AllTerminated == \A w \in 0..(size - 1) : Terminated(w)
C18_DropTerminatesWorkers ==
    /\ [](poolState = "dropped" => ~senderAlive)
    /\ [](poolState = "dropped" => <>AllTerminated)

\* The pool of two was dropped while both workers were Waiting; both are
\* terminated, the second by the poisoned mutex.
C18_Witness ==
    /\ poolState = "dropped"
    /\ size = 2
    /\ AllTerminated
    /\ poisoned
    /\ deqLog = << >>

\* ---- C20 ----
\* C20: when build has returned ThreadSpawnError the Sender is gone, the
\* channel holds no job and never will, no job is ever executed, and every
\* worker spawned before the failure eventually terminates.
C20_FailedBuildLeaksNoWorker ==
    /\ [](result = "ThreadSpawnError" =>
            (~senderAlive /\ queue = << >> /\ deqLog = << >> /\ Counter = 0))
    /\ [](result = "ThreadSpawnError" => <>(\A w \in Spawned : Terminated(w)))

\* The second spawn failed and the worker spawned first has terminated.
C20_Witness ==
    /\ result = "ThreadSpawnError"
    /\ Spawned # {}
    /\ \A w \in Spawned : Terminated(w)

\* ---- C11 ----
\* Connections main has taken from the listener.
AcceptedConns ==
    {c \in Conns : request[c] # "unsent" /\ \A p \in 1..Len(backlog) : backlog[p] # c}
\* C11 (as claimed): every accepted connection eventually receives exactly
\* one response, and its status is 200 OK for "GET / HTTP/1.1" and
\* "GET /sleep HTTP/1.1" and 404 NOT FOUND otherwise, whatever the other
\* connections sent.
C11_EveryConnectionAnswered ==
    /\ [](\A c \in Conns :
            /\ Len(responses[c]) <= 1
            /\ Len(responses[c]) = 1 =>
                  responses[c][1] =
                      IF request[c] \in {"GET / HTTP/1.1", "GET /sleep HTTP/1.1"}
                      THEN "HTTP/1.1 200 OK" ELSE "HTTP/1.1 404 NOT FOUND")
    /\ \A c \in Conns : [](c \in AcceptedConns => <>(Len(responses[c]) = 1))

\* ---- C19 ----
\* C19 (as claimed): every accepted connection is handed to the pool by a
\* call of execute, and the listener is free to accept while a connection
\* is waiting: it is never busy handling (or sleeping for) an earlier one.
C19_ConnectionsHandedToPool ==
    /\ Cardinality(AcceptedConns) = NumSubmitted
    /\ backlog # << >> => mainPc = "accept"
====
